---- MODULE Spec2Model ----
(***************************************************************************)
(* Label-shift adaptation (abstention/label_shift.py).                     *)
(*                                                                         *)
(* Numbers: a numpy float is modelled as an exact rational <<n, d>> in     *)
(* lowest terms with d > 0, extended with the IEEE specials the code can   *)
(* produce by dividing by zero: <<1, 0>> = inf, <<-1, 0>> = -inf and       *)
(* <<0, 0>> = nan.  Rounding of binary floating point is not modelled.     *)
(*                                                                         *)
(* Arrays: a numpy ndarray is a record [shape, data]; shape is <<>> for a  *)
(* numpy scalar, <<N>> for a 1-D array (data: sequence of numbers) and     *)
(* <<N, K>> for a 2-D array (data: sequence of N rows of K numbers).       *)
(* A raised exception is a record [error |-> name].                        *)
(***************************************************************************)
EXTENDS Integers, Sequences, FiniteSets, TLC

VARIABLES
    self,      \* the object whose __call__ runs: its class and fields
    args,      \* the arguments of the call
    pc,        \* "call" before the call, "loop" at the EM while test, "done"
    valid_class_freq,                 \* EMImbalanceAdapter.__call__ locals
    softmax_initial_posterior_probs,
    current_iter_class_freq,
    next_iter_class_freq,
    iter_number,
    ret        \* the value returned (or the exception raised) by the call

vars == <<self, args, pc, valid_class_freq, softmax_initial_posterior_probs,
          current_iter_class_freq, next_iter_class_freq, iter_number, ret>>

(***************************************************************************)
(* Bounds of the checked input space.                                      *)
(***************************************************************************)
MaxN == 2
MaxK == 2
MaxIter == 2

None == [cls |-> "NoneType"]

(***************************************************************************)
(* Float arithmetic, exact.                                                *)
(***************************************************************************)
AbsInt(i) == IF i < 0 THEN -i ELSE i

SignInt(i) == IF i < 0 THEN -1 ELSE IF i > 0 THEN 1 ELSE 0

RECURSIVE GCD(_, _)
GCD(a, b) == IF b = 0 THEN a ELSE GCD(b, a % b)

NaN == <<0, 0>>

Q(n, d) ==
    IF d = 0 THEN <<SignInt(n), 0>>
    ELSE LET g == GCD(AbsInt(n), AbsInt(d))
             s == SignInt(d)
         IN  <<(s * n) \div g, (s * d) \div g>>

Zero == <<0, 1>>

One == <<1, 1>>

IsNaN(x) == x = NaN

IsFinite(x) == x[2] # 0

Neg(x) == <<-x[1], x[2]>>

Add(x, y) ==
    IF IsNaN(x) \/ IsNaN(y) THEN NaN
    ELSE IF ~IsFinite(x) THEN (IF ~IsFinite(y) /\ y # x THEN NaN ELSE x)
    ELSE IF ~IsFinite(y) THEN y
    ELSE LET g == GCD(x[2], y[2])
         IN  Q(x[1] * (y[2] \div g) + y[1] * (x[2] \div g),
               (x[2] \div g) * y[2])

Sub(x, y) == Add(x, Neg(y))

Mul(x, y) ==
    IF IsNaN(x) \/ IsNaN(y) THEN NaN
    ELSE IF ~IsFinite(x) \/ ~IsFinite(y)
         THEN <<SignInt(x[1]) * SignInt(y[1]), 0>>
    ELSE LET g1 == GCD(AbsInt(x[1]), y[2])
             g2 == GCD(AbsInt(y[1]), x[2])
         IN  Q((x[1] \div g1) * (y[1] \div g2),
               (x[2] \div g2) * (y[2] \div g1))

Recip(x) ==
    IF IsNaN(x) THEN NaN
    ELSE IF ~IsFinite(x) THEN Zero
    ELSE IF x[1] = 0 THEN <<1, 0>>
    ELSE Q(x[2], x[1])

Div(x, y) == Mul(x, Recip(y))

AbsQ(x) == <<AbsInt(x[1]), x[2]>>

\* x < y; every comparison with nan is False
Lt(x, y) ==
    /\ ~IsNaN(x)
    /\ ~IsNaN(y)
    /\ IF IsFinite(x) /\ IsFinite(y) THEN x[1] * y[2] < y[1] * x[2]
       ELSE IF ~IsFinite(x) /\ ~IsFinite(y) THEN x[1] < y[1]
       ELSE IF ~IsFinite(x) THEN x[1] < 0
       ELSE y[1] > 0

Gt(x, y) == Lt(y, x)

Ge(x, y) == ~IsNaN(x) /\ ~IsNaN(y) /\ ~Lt(x, y)

RECURSIVE SumSeq(_)
SumSeq(s) == IF s = <<>> THEN Zero ELSE Add(SumSeq(Tail(s)), Head(s))

(***************************************************************************)
(* numpy arrays.                                                           *)
(***************************************************************************)
Scalar(x) == [shape |-> <<>>, data |-> x]

\* the sequence s as an explicit tuple (its elements are computed once)
Vec(s) == <<>> \o s

Arr1(d) == [shape |-> <<Len(d)>>, data |-> Vec(d)]

Arr2(rows) ==
    [shape |-> <<Len(rows), Len(rows[1])>>,
     data |-> Vec([n \in 1..Len(rows) |-> Vec(rows[n])])]

Raise(name) == [error |-> name]

IsError(v) == "error" \in DOMAIN v

ndim(a) == Len(a.shape)

\* a[:, c] of a 2-D array, as a sequence
Column(rows, c) == Vec([n \in 1..Len(rows) |-> rows[n][c]])

\* np.mean(a, axis=0): a scalar for a 1-D array, a 1-D array for a 2-D one
MeanAxis0(a) ==
    IF ndim(a) = 1
    THEN Scalar(Div(SumSeq(a.data), Q(a.shape[1], 1)))
    ELSE Arr1([c \in 1..a.shape[2] |->
                  Div(SumSeq(Column(a.data, c)), Q(a.shape[1], 1))])

\* mutant: the division by the row sum is left out
NormalizeRow_Unnormalized(r) == r

\* the row r / np.sum(r): one row of x / np.sum(x, axis=-1)[:, None]
NormalizeRow(r) == Vec([c \in 1..Len(r) |-> Div(r[c], SumSeq(r))])

\* the calibrator used when no calibrator_factory is configured
Identity(x) == x

CallCalibrator(calibrator_func, x) ==
    CASE calibrator_func = "lambda x: x" -> Identity(x)

(***************************************************************************)
(* PriorShiftAdapterFunc                                                   *)
(***************************************************************************)
PriorShiftAdapterFunc(multipliers, calibrator_func) ==
    [cls |-> "PriorShiftAdapterFunc",
     multipliers |-> multipliers,
     calibrator_func |-> calibrator_func]

\* the test of lines 23-24 and 45-46
IsBinaryFormat(x) == ndim(x) = 1 \/ x.shape[2] = 1

\* lines 25-30: zeros((len(x), 2)), [:, 0] = x, [:, 1] = 1 - x.  Assigning an
\* (N, 1) array to the (N,) slice broadcasts only when N = 1.
ExpandBinary(x) ==
    IF ndim(x) = 1
    THEN Arr2([n \in 1..x.shape[1] |-> <<x.data[n], Sub(One, x.data[n])>>])
    ELSE IF x.shape[1] = 1
    THEN Arr2(<< <<x.data[1][1], Sub(One, x.data[1][1])>> >>)
    ELSE Raise("ValueError")

\* lines 38-39: x * multipliers[None, :], an (N, K) by (1, M) broadcast
MultiplyColumns(x, multipliers) ==
    IF ndim(multipliers) # 1 THEN Raise("IndexError")
    ELSE IF multipliers.shape[1] \notin {1, x.shape[2]} THEN Raise("ValueError")
    ELSE Arr2([n \in 1..x.shape[1] |-> [c \in 1..x.shape[2] |->
                 Mul(x.data[n][c],
                     multipliers.data[IF multipliers.shape[1] = 1
                                      THEN 1 ELSE c])]])

\* lines 40-42
NormalizeRows(x) == Arr2([n \in 1..x.shape[1] |-> NormalizeRow(x.data[n])])

\* mutant: column 0 is returned instead of column 1
ReturnToBinary_Column0(x, adapted) ==
    IF ndim(x) = 1 THEN Arr1(Column(adapted.data, 1))
    ELSE Arr2([n \in 1..adapted.shape[1] |-> <<adapted.data[n][1]>>])

\* lines 45-53
ReturnToBinary(x, adapted) ==
    IF ndim(x) = 1 THEN Arr1(Column(adapted.data, 2))
    ELSE Arr2([n \in 1..adapted.shape[1] |-> <<adapted.data[n][2]>>])

PriorShiftAdapterFunc_call(f, unadapted_posterior_probs) ==
    LET softmax_unadapted_posterior_probs ==
            IF IsBinaryFormat(unadapted_posterior_probs)
            THEN ExpandBinary(unadapted_posterior_probs)
            ELSE unadapted_posterior_probs
    IN  IF IsError(softmax_unadapted_posterior_probs)
        THEN softmax_unadapted_posterior_probs
        ELSE
        LET calibrated == CallCalibrator(f.calibrator_func,
                                         softmax_unadapted_posterior_probs)
            adapted_posterior_probs_unnorm ==
                MultiplyColumns(calibrated, f.multipliers)
        IN  IF IsError(adapted_posterior_probs_unnorm)
            THEN adapted_posterior_probs_unnorm
            ELSE
            LET adapted_posterior_probs ==
                    NormalizeRows(adapted_posterior_probs_unnorm)
            IN  IF IsBinaryFormat(unadapted_posterior_probs)
                THEN ReturnToBinary(unadapted_posterior_probs,
                                    adapted_posterior_probs)
                ELSE adapted_posterior_probs

(***************************************************************************)
(* Collaborators from abstention/calibration.py.                           *)
(***************************************************************************)
\* binary shorthand (1-D, or a single column) becomes the 2-column matrix
\* [values, 1 - values]; a full-format matrix is returned as it is
map_to_softmax_format_if_approrpiate(values) ==
    IF ndim(values) = 1
    THEN Arr2([n \in 1..values.shape[1] |->
                 <<values.data[n], Sub(One, values.data[n])>>])
    ELSE IF values.shape[2] = 1
    THEN Arr2([n \in 1..values.shape[1] |->
                 <<values.data[n][1], Sub(One, values.data[n][1])>>])
    ELSE values

\* index of the first largest entry of a row (np.argmax)
RECURSIVE ArgMaxFrom(_, _, _)
ArgMaxFrom(row, c, best) ==
    IF c > Len(row) THEN best
    ELSE ArgMaxFrom(row, c + 1, IF Gt(row[c], row[best]) THEN c ELSE best)

\* one-hot matrix of the row-wise argmax
get_hard_preds(softmax_preds) ==
    Arr2([n \in 1..softmax_preds.shape[1] |->
            [c \in 1..softmax_preds.shape[2] |->
                IF c = ArgMaxFrom(softmax_preds.data[n], 2, 1)
                THEN One ELSE Zero]])

(***************************************************************************)
(* Element-wise numpy operations with broadcasting.                        *)
(***************************************************************************)
\* the numpy operators the code broadcasts: "*" and "/"
Op(op, x, y) == IF op = "*" THEN Mul(x, y) ELSE Div(x, y)

\* a op b for a, b scalars or 1-D arrays
Elementwise(op, a, b) ==
    IF ndim(a) = 0 /\ ndim(b) = 0 THEN Scalar(Op(op, a.data, b.data))
    ELSE IF ndim(a) = 0 THEN Arr1([c \in 1..b.shape[1] |-> Op(op, a.data, b.data[c])])
    ELSE IF ndim(b) = 0 THEN Arr1([c \in 1..a.shape[1] |-> Op(op, a.data[c], b.data)])
    ELSE IF a.shape[1] = b.shape[1] \/ b.shape[1] = 1
    THEN Arr1([c \in 1..a.shape[1] |->
                 Op(op, a.data[c], b.data[IF b.shape[1] = 1 THEN 1 ELSE c])])
    ELSE IF a.shape[1] = 1
    THEN Arr1([c \in 1..b.shape[1] |-> Op(op, a.data[1], b.data[c])])
    ELSE Raise("ValueError")

\* x op v[None, :] for a 2-D x of K >= 2 columns and v a scalar or 1-D array
\* (indexing a numpy scalar with [None, :] raises IndexError)
BroadcastColumns(op, x, v) ==
    IF ndim(v) # 1 THEN Raise("IndexError")
    ELSE IF v.shape[1] \notin {1, x.shape[2]} THEN Raise("ValueError")
    ELSE Arr2([n \in 1..x.shape[1] |-> [c \in 1..x.shape[2] |->
                 Op(op, x.data[n][c], v.data[IF v.shape[1] = 1 THEN 1 ELSE c])]])

\* np.sum(a) of a scalar or 1-D array
SumAll(a) == IF ndim(a) = 0 THEN a.data ELSE SumSeq(a.data)

(***************************************************************************)
(* BBSEImbalanceAdapter                                                    *)
(***************************************************************************)
\* the matrix m without row i and column j
Minor(m, i, j) ==
    Vec([r \in 1..(Len(m) - 1) |-> Vec([c \in 1..(Len(m) - 1) |->
        m[IF r < i THEN r ELSE r + 1][IF c < j THEN c ELSE c + 1]])])

RECURSIVE Det(_)
Det(m) ==
    IF Len(m) = 1 THEN m[1][1]
    ELSE SumSeq(Vec([j \in 1..Len(m) |->
            Mul(Mul(IF j % 2 = 1 THEN One ELSE Neg(One), m[1][j]),
                Det(Minor(m, 1, j)))]))

\* the inverse of m, whose determinant is det, by cofactors
InvByCofactors(m, det) ==
    IF det = Zero THEN Raise("LinAlgError")
    ELSE IF Len(m) = 1 THEN Arr2(<< <<Recip(det)>> >>)
    ELSE Arr2([i \in 1..Len(m) |-> [j \in 1..Len(m) |->
            Div(Mul(IF (i + j) % 2 = 0 THEN One ELSE Neg(One),
                    Det(Minor(m, j, i))),
                det)]])

\* scipy.linalg.inv: the inverse, or LinAlgError for a singular matrix
Inv(m) == InvByCofactors(m, Det(m))

\* m.dot(v)
Dot(m, v) == Vec([i \in 1..Len(m) |->
                SumSeq(Vec([j \in 1..Len(v) |-> Mul(m[i][j], v[j])]))])

\* lines 222-228: mean over the examples of preds[:, :, None] * labels[:, None, :]
ConfusionMatrix(preds, labels) ==
    Vec([i \in 1..preds.shape[2] |-> Vec([j \in 1..labels.shape[2] |->
        Div(SumSeq(Vec([n \in 1..preds.shape[1] |->
                      Mul(preds.data[n][i], labels.data[n][j])])),
            Q(preds.shape[1], 1))])])

\* mutant: the negative weights are not masked out
MaskNegative_Unmasked(weights) == weights

\* line 234: 1.0 * (weights * (weights >= 0))
MaskNegative(weights) ==
    Vec([c \in 1..Len(weights) |->
        Mul(weights[c], IF Ge(weights[c], Zero) THEN One ELSE Zero)])

\* mutant: the soft probabilities are averaged whatever the soft flag says
MuhatYhat_AlwaysSoft(soft, tofit_initial_posterior_probs) ==
    MeanAxis0(tofit_initial_posterior_probs)

\* lines 215-218
MuhatYhat(soft, tofit_initial_posterior_probs) ==
    IF soft THEN MeanAxis0(tofit_initial_posterior_probs)
    ELSE MeanAxis0(get_hard_preds(tofit_initial_posterior_probs))

\* line 230: inv_confusion.dot(muhat_yhat)
InvDotMuhat(inv_confusion, muhat_yhat) ==
    IF IsError(inv_confusion) THEN inv_confusion
    ELSE IF muhat_yhat.shape[1] # inv_confusion.shape[2]
    THEN Raise("ValueError")
    ELSE Arr1(Dot(inv_confusion.data, muhat_yhat.data))

\* lines 215-230: the weights before the negative entries are masked out
BBSEWeights(soft, valid_labels, tofit_initial_posterior_probs, valid_posterior_probs) ==
    InvDotMuhat(
        Inv(ConfusionMatrix(IF soft THEN valid_posterior_probs
                            ELSE get_hard_preds(valid_posterior_probs),
                            valid_labels)),
        MuhatYhat(soft, tofit_initial_posterior_probs))

\* lines 234-238
BBSEReturn(weights, calibrator_func) ==
    IF IsError(weights) THEN weights
    ELSE PriorShiftAdapterFunc(Arr1(MaskNegative(weights.data)),
                               calibrator_func)

BBSEImbalanceAdapter_call(adapter, valid_labels, tofit_initial_posterior_probs, valid_posterior_probs) ==
    BBSEReturn(
        BBSEWeights(
            adapter.soft, valid_labels,
            CallCalibrator("lambda x: x", tofit_initial_posterior_probs),
            CallCalibrator("lambda x: x", valid_posterior_probs)),
        "lambda x: x")

(***************************************************************************)
(* Weight-only estimators.                                                 *)
(***************************************************************************)
NoWeightShift_call(valid_labels, tofit_initial_posterior_probs, valid_posterior_probs) ==
    Arr1([c \in 1..valid_posterior_probs.shape[2] |-> One])

\* line 253: prior_shift_adapter_func.multipliers (an exception propagates)
MultipliersOf(prior_shift_adapter_func) ==
    IF IsError(prior_shift_adapter_func) THEN prior_shift_adapter_func
    ELSE prior_shift_adapter_func.multipliers

ShiftWeightFromImbalanceAdapter_call(estimator, valid_labels, tofit_initial_posterior_probs, valid_posterior_probs) ==
    MultipliersOf(
        BBSEImbalanceAdapter_call(estimator.imbalance_adapter,
            valid_labels, tofit_initial_posterior_probs,
            valid_posterior_probs))

\* self.initialization_weight_ratio(...), by the estimator's class
CallWeightEstimator(estimator, valid_labels, tofit_initial_posterior_probs, valid_posterior_probs) ==
    IF estimator.cls = "NoWeightShift"
    THEN NoWeightShift_call(valid_labels, tofit_initial_posterior_probs,
                            valid_posterior_probs)
    ELSE ShiftWeightFromImbalanceAdapter_call(estimator, valid_labels,
             tofit_initial_posterior_probs, valid_posterior_probs)

(***************************************************************************)
(* Inputs.                                                                 *)
(***************************************************************************)
\* probability values the inputs are drawn from
Probs == {Zero, Q(1, 2), One}

\* multiplier values the adapter functions are built with
MultiplierValues == {Zero, Q(1, 2), One, Q(2, 1)}

SeqsOf(S, n) == [1..n -> S]

\* rows over K classes that sum to 1
ProbRows(K) == {r \in SeqsOf(Probs, K) : SumSeq(r) = One}

\* full-format N x K posterior probability matrices
ProbMatrices(K) ==
    UNION {{Arr2(m) : m \in SeqsOf(ProbRows(K), N)} : N \in 1..MaxN}

\* a <= b in the lexicographic order, from position i on
RECURSIVE LexLe(_, _, _)
LexLe(a, b, i) ==
    IF i > Len(a) THEN TRUE
    ELSE IF Lt(a[i], b[i]) THEN TRUE
    ELSE IF Lt(b[i], a[i]) THEN FALSE
    ELSE LexLe(a, b, i + 1)

\* the sequences of n elements of S in non-decreasing order.  The fit
\* procedures only average over the examples, so a validation set is
\* listed once, with its examples in this order.
SortedSeqsOf(S, n) ==
    {m \in SeqsOf(S, n) : \A i \in 1..(n - 1) : LexLe(m[i], m[i + 1], 1)}

\* validation sets: full-format N x K posterior probability matrices
ValidMatrices(K) ==
    UNION {{Arr2(m) : m \in SortedSeqsOf(ProbRows(K), N)} : N \in 1..MaxN}

\* binary shorthand: 1-D vectors of length N, and N x 1 columns
ProbVectors == UNION {{Arr1(v) : v \in SeqsOf(Probs, N)} : N \in 1..MaxN}

ProbColumns ==
    {Arr2([n \in 1..v.shape[1] |-> <<v.data[n]>>]) : v \in ProbVectors}

MultiplierVectors(K) == {Arr1(v) : v \in SeqsOf(MultiplierValues, K)}

\* the spec's concrete scenario: binary input [0.3, 0.7, 0.5], multipliers
\* [2.0, 1.0]
ScenarioInput == Arr1(<<Q(3, 10), Q(7, 10), Q(5, 10)>>)

ScenarioMultipliers == Arr1(<<Q(2, 1), One>>)

NoLocals ==
    /\ valid_class_freq = None
    /\ softmax_initial_posterior_probs = None
    /\ current_iter_class_freq = None
    /\ next_iter_class_freq = None
    /\ iter_number = 0

EMLocals == <<valid_class_freq, softmax_initial_posterior_probs,
              current_iter_class_freq, next_iter_class_freq, iter_number>>

(***************************************************************************)
(* Specification of a call of a PriorShiftAdapterFunc.                     *)
(***************************************************************************)
InitAdapt ==
    /\ pc = "call"
    /\ ret = None
    /\ NoLocals
    /\ \/ \E K \in 2..MaxK :
            /\ self \in {PriorShiftAdapterFunc(m, "lambda x: x") :
                            m \in MultiplierVectors(K)}
            /\ args \in {[unadapted_posterior_probs |-> x] :
                            x \in ProbMatrices(K)}
       \/ /\ self \in {PriorShiftAdapterFunc(m, "lambda x: x") :
                            m \in MultiplierVectors(2)}
          /\ args \in {[unadapted_posterior_probs |-> x] :
                            x \in ProbVectors \cup ProbColumns}
       \/ /\ self = PriorShiftAdapterFunc(ScenarioMultipliers, "lambda x: x")
          /\ args = [unadapted_posterior_probs |-> ScenarioInput]

Adapt ==
    /\ pc = "call"
    /\ self.cls = "PriorShiftAdapterFunc"
    /\ ret' = PriorShiftAdapterFunc_call(self, args.unadapted_posterior_probs)
    /\ pc' = "done"
    /\ UNCHANGED <<self, args, EMLocals>>

NextAdapt == Adapt

SpecAdapt == InitAdapt /\ [][NextAdapt]_vars

(***************************************************************************)
(* Specification of a call of a BBSEImbalanceAdapter.                      *)
(***************************************************************************)
OneHotRows(K) == {[c \in 1..K |-> IF c = k THEN One ELSE Zero] : k \in 1..K}

\* a labelled example: its K posterior probabilities, then its one-hot label
Examples(K) == {r \o l : r \in ProbRows(K), l \in OneHotRows(K)}

\* labelled validation sets of 1..MaxN examples over K classes
LabelledSets(K) == UNION {SortedSeqsOf(Examples(K), N) : N \in 1..MaxN}

ProbsOf(examples, K) ==
    Arr2([n \in 1..Len(examples) |-> SubSeq(examples[n], 1, K)])

LabelsOf(examples, K) ==
    Arr2([n \in 1..Len(examples) |-> SubSeq(examples[n], K + 1, 2 * K)])

\* the to-fit batches tried with a validation set: the validation
\* probabilities themselves (no shift), and the one-example batches
TofitChoices(valid, K) ==
    {valid} \cup {Arr2(<<r>>) : r \in ProbRows(K)}

FitArgs(labels, tofit, valid) ==
    [valid_labels |-> labels,
     tofit_initial_posterior_probs |-> tofit,
     valid_posterior_probs |-> valid]

BBSEImbalanceAdapter(soft) ==
    [cls |-> "BBSEImbalanceAdapter", soft |-> soft,
     calibrator_factory |-> None]

InitBBSE ==
    /\ pc = "call"
    /\ ret = None
    /\ NoLocals
    /\ self \in {BBSEImbalanceAdapter(soft) : soft \in BOOLEAN}
    /\ \E K \in 2..MaxK : \E examples \in LabelledSets(K) :
          args \in {FitArgs(LabelsOf(examples, K), tofit,
                            ProbsOf(examples, K)) :
                      tofit \in TofitChoices(ProbsOf(examples, K), K)}

BBSE ==
    /\ pc = "call"
    /\ self.cls = "BBSEImbalanceAdapter"
    /\ ret' = BBSEImbalanceAdapter_call(self, args.valid_labels,
                  args.tofit_initial_posterior_probs,
                  args.valid_posterior_probs)
    /\ pc' = "done"
    /\ UNCHANGED <<self, args, EMLocals>>

NextBBSE == BBSE

SpecBBSE == InitBBSE /\ [][NextBBSE]_vars

(***************************************************************************)
(* EMImbalanceAdapter.__call__, one step per pass of the while loop.       *)
(***************************************************************************)
EMImbalanceAdapter(tolerance, max_iterations, initialization_weight_ratio) ==
    [cls |-> "EMImbalanceAdapter",
     tolerance |-> tolerance,
     max_iterations |-> max_iterations,
     calibrator_factory |-> None,
     initialization_weight_ratio |-> initialization_weight_ratio]

\* line 123: the class frequencies are taken from valid_posterior_probs as
\* it was passed in, not from softmax_valid_posterior_probs
ValidClassFreq(valid_posterior_probs) ==
    MeanAxis0(CallCalibrator("lambda x: x", valid_posterior_probs))

\* lines 143-144: x / np.sum(x)
DivideBySum(x) ==
    IF IsError(x) THEN x ELSE Elementwise("/", x, Scalar(SumAll(x)))

\* lines 138-144
FirstIterClassFreq(freq, weights) ==
    IF IsError(weights) THEN weights
    ELSE DivideBySum(Elementwise("*", freq, weights))

\* lines 146-150; an exception raised on the way ends the call
EMSeed(first_iter_class_freq) ==
    IF IsError(first_iter_class_freq)
    THEN /\ ret' = first_iter_class_freq
         /\ pc' = "done"
         /\ UNCHANGED current_iter_class_freq
    ELSE /\ current_iter_class_freq' = first_iter_class_freq
         /\ pc' = "loop"
         /\ UNCHANGED ret

\* lines 98-150: everything before the first test of the while loop
EMEnter ==
    /\ pc = "call"
    /\ self.cls = "EMImbalanceAdapter"
    /\ valid_class_freq' = ValidClassFreq(args.valid_posterior_probs)
    /\ softmax_initial_posterior_probs' =
           CallCalibrator("lambda x: x",
               map_to_softmax_format_if_approrpiate(
                   args.tofit_initial_posterior_probs))
    /\ EMSeed(FirstIterClassFreq(valid_class_freq',
           CallWeightEstimator(self.initialization_weight_ratio,
               IF args.valid_labels # None
               THEN map_to_softmax_format_if_approrpiate(args.valid_labels)
               ELSE None,
               softmax_initial_posterior_probs',
               map_to_softmax_format_if_approrpiate(
                   args.valid_posterior_probs))))
    /\ UNCHANGED <<self, args, next_iter_class_freq, iter_number>>

\* np.sum(np.abs(next - current) > tolerance): the number of classes whose
\* estimate moved by more than the tolerance
CountAboveTolerance(next, current, tolerance) ==
    Cardinality({c \in 1..next.shape[1] :
        Gt(AbsQ(Sub(next.data[c], current.data[c])), tolerance)})

\* lines 151-155: the test of the while loop
EMLoopTest ==
    /\ IF next_iter_class_freq = None THEN TRUE
       ELSE CountAboveTolerance(next_iter_class_freq,
                current_iter_class_freq, self.tolerance) # 0
    /\ iter_number < self.max_iterations

\* mutant: the division by the validation class frequencies is left out
DivideColumns_Undivided(reweighted, valid_freq) == reweighted

\* lines 160-163: reweighted / valid_class_freq[None, :]
DivideColumns(reweighted, valid_freq) ==
    IF IsError(reweighted) THEN reweighted
    ELSE BroadcastColumns("/", reweighted, valid_freq)

\* lines 164-169: the column means of the row-normalized posteriors
MeanOfNormalized(current_iter_posterior_probs_unnorm) ==
    IF IsError(current_iter_posterior_probs_unnorm)
    THEN current_iter_posterior_probs_unnorm
    ELSE MeanAxis0(NormalizeRows(current_iter_posterior_probs_unnorm))

\* lines 160-169, for the class frequencies freq
EMUpdate(initial, freq, valid_freq) ==
    MeanOfNormalized(
        DivideColumns(BroadcastColumns("*", initial, freq), valid_freq))

\* lines 168-170; an exception raised in the body ends the call
EMStep(next) ==
    IF IsError(next)
    THEN /\ ret' = next
         /\ pc' = "done"
         /\ UNCHANGED <<next_iter_class_freq, iter_number>>
    ELSE /\ next_iter_class_freq' = next
         /\ iter_number' = iter_number + 1
         /\ UNCHANGED <<ret, pc>>

\* lines 157-170: one pass of the loop body
EMIterate ==
    /\ pc = "loop"
    /\ EMLoopTest
    /\ current_iter_class_freq' =
           IF next_iter_class_freq # None
           THEN next_iter_class_freq
           ELSE current_iter_class_freq
    /\ EMStep(EMUpdate(softmax_initial_posterior_probs,
                       current_iter_class_freq', valid_class_freq))
    /\ UNCHANGED <<self, args, valid_class_freq,
                   softmax_initial_posterior_probs>>

\* lines 175-182, for the last estimate (None when the loop never ran)
EMResult(last, valid_freq) ==
    IF last = None THEN Raise("TypeError")
    ELSE PriorShiftAdapterFunc(Elementwise("/", last, valid_freq),
                               "lambda x: x")

\* lines 171-182: the loop is left and the adapter function is returned
EMReturn ==
    /\ pc = "loop"
    /\ ~EMLoopTest
    /\ current_iter_class_freq' = next_iter_class_freq
    /\ ret' = EMResult(next_iter_class_freq, valid_class_freq)
    /\ pc' = "done"
    /\ UNCHANGED <<self, args, valid_class_freq,
                   softmax_initial_posterior_probs, next_iter_class_freq,
                   iter_number>>

\* line 84: tolerance=1E-6
DefaultTolerance == Q(1, 1000000)

\* tolerance values: the default and a coarse one
Tolerances == {DefaultTolerance, Q(1, 4)}

NoWeightShift == [cls |-> "NoWeightShift"]

ShiftWeightFromImbalanceAdapter(imbalance_adapter) ==
    [cls |-> "ShiftWeightFromImbalanceAdapter",
     imbalance_adapter |-> imbalance_adapter]

InitEM ==
    /\ pc = "call"
    /\ ret = None
    /\ NoLocals
    /\ self \in {EMImbalanceAdapter(tol, max, NoWeightShift) :
                    tol \in Tolerances, max \in 0..MaxIter}
    /\ \/ \E K \in 2..MaxK : \E valid \in ValidMatrices(K) :
             args \in {FitArgs(None, tofit, valid) :
                         tofit \in TofitChoices(valid, K)}
       \/ \E valid \in ProbVectors \cup ProbColumns :
             args \in {FitArgs(None, tofit, valid) :
                         tofit \in TofitChoices(valid, 2)}

\* EM seeded by BBSE, on validation sets labelled with the argmax class
InitEMSeeded ==
    /\ pc = "call"
    /\ ret = None
    /\ NoLocals
    /\ self \in {EMImbalanceAdapter(DefaultTolerance, max,
                    ShiftWeightFromImbalanceAdapter(BBSEImbalanceAdapter(soft))) :
                    max \in 0..MaxIter, soft \in BOOLEAN}
    /\ \E K \in 2..MaxK : \E valid \in ValidMatrices(K) :
          args \in {FitArgs(get_hard_preds(valid), tofit, valid) :
                      tofit \in TofitChoices(valid, K)}

NextEM == EMEnter \/ EMIterate \/ EMReturn

SpecEM == (InitEM \/ InitEMSeeded) /\ [][NextEM]_vars

(***************************************************************************)
(* Properties of PriorShiftAdapterFunc.__call__ (under SpecAdapt).         *)
(***************************************************************************)
AdaptInput == args.unadapted_posterior_probs

AdaptDone == pc = "done" /\ self.cls = "PriorShiftAdapterFunc"

AllOnes(a) == ndim(a) = 1 /\ \A c \in 1..a.shape[1] : a.data[c] = One

\* C3: with an all-ones multiplier vector and the identity calibrator the
\* adapter function returns its input unchanged, for a full-format N x K
\* input and for a 1-D binary vector alike.
C3_IdentityOnProbabilities ==
    (/\ AdaptDone
     /\ AllOnes(self.multipliers)
     /\ self.calibrator_func = "lambda x: x"
     /\ (ndim(AdaptInput) = 1 \/ AdaptInput.shape[2] >= 2))
    => ret = AdaptInput

\* a row keeps some mass after reweighting
RowKeepsMass(row, multipliers) ==
    \E c \in 1..Len(row) :
        Gt(row[c], Zero) /\ Gt(multipliers.data[c], Zero)

C4_Case ==
    /\ AdaptDone
    /\ ndim(AdaptInput) = 2
    /\ AdaptInput.shape[2] >= 2
    /\ self.multipliers.shape[1] = AdaptInput.shape[2]
    /\ \A c \in 1..self.multipliers.shape[1] : Ge(self.multipliers.data[c], Zero)
    /\ \A n \in 1..AdaptInput.shape[1] :
           RowKeepsMass(AdaptInput.data[n], self.multipliers)

\* C4: for a non-negative multiplier vector and an N x K input (K >= 2)
\* none of whose rows has all its mass on zero-multiplier classes, every
\* output row sums to 1 and every output entry is non-negative.
C4_RowsSumToOne ==
    C4_Case =>
        /\ ~IsError(ret)
        /\ ret.shape = AdaptInput.shape
        /\ \A n \in 1..ret.shape[1] :
              /\ SumSeq(ret.data[n]) = One
              /\ \A c \in 1..ret.shape[2] : Ge(ret.data[n][c], Zero)

\* a row is really reweighted: a zero and a non-unit multiplier are in play
C4_Witness ==
    /\ C4_Case
    /\ \E c \in 1..self.multipliers.shape[1] : self.multipliers.data[c] = Zero
    /\ \E c \in 1..self.multipliers.shape[1] : self.multipliers.data[c] = Q(2, 1)
    /\ ret # AdaptInput

\* C5: the output on a 1-D binary input equals the second column of the
\* output on its 2-column expansion [p, 1 - p]; the scenario input
\* [0.3, 0.7, 0.5] with multipliers [2, 1] expands to
\* [[0.3,0.7],[0.7,0.3],[0.5,0.5]], is reweighted to
\* [[0.6,0.7],[1.4,0.3],[1.0,0.5]] and returns [0.7/1.3, 0.3/1.7, 0.5/1.5].
C5_BinaryRoundTrip ==
    (AdaptDone /\ ndim(AdaptInput) = 1)
    => /\ ~IsError(ret)
       /\ ret.shape = AdaptInput.shape
       /\ ret.data =
            Column(PriorShiftAdapterFunc_call(
                       self, ExpandBinary(AdaptInput)).data, 2)
       /\ (AdaptInput = ScenarioInput /\ self.multipliers = ScenarioMultipliers)
          => /\ ExpandBinary(AdaptInput).data =
                   << <<Q(3, 10), Q(7, 10)>>, <<Q(7, 10), Q(3, 10)>>,
                      <<Q(5, 10), Q(5, 10)>> >>
             /\ MultiplyColumns(ExpandBinary(AdaptInput), self.multipliers).data =
                   << <<Q(6, 10), Q(7, 10)>>, <<Q(14, 10), Q(3, 10)>>,
                      <<Q(10, 10), Q(5, 10)>> >>
             /\ ret.data = <<Q(7, 13), Q(3, 17), Q(5, 15)>>

C5_Witness ==
    /\ AdaptDone
    /\ AdaptInput = ScenarioInput
    /\ self.multipliers = ScenarioMultipliers
    /\ ret.data = <<Q(7, 13), Q(3, 17), Q(5, 15)>>

\* C6: an N x 1 input is expanded, reweighted, renormalized and returned
\* without error as the N x 1 matrix holding column 1 of the result.
C6_SingleColumn ==
    (AdaptDone /\ ndim(AdaptInput) = 2 /\ AdaptInput.shape[2] = 1)
    => /\ ~IsError(ret)
       /\ ret.shape = AdaptInput.shape
       /\ \A n \in 1..ret.shape[1] :
             ret.data[n] =
                <<NormalizeRow(
                    [c \in 1..2 |->
                        Mul(<<AdaptInput.data[n][1],
                              Sub(One, AdaptInput.data[n][1])>>[c],
                            self.multipliers.data[c])])[2]>>

(***************************************************************************)
(* Properties of BBSEImbalanceAdapter.__call__ (under SpecBBSE).           *)
(***************************************************************************)
BBSEDone == pc = "done" /\ self.cls = "BBSEImbalanceAdapter"

\* the matrix M of the call: M[i][j] = mean of prediction_i * label_j
BBSEConfusion ==
    ConfusionMatrix(IF self.soft THEN args.valid_posterior_probs
                    ELSE get_hard_preds(args.valid_posterior_probs),
                    args.valid_labels)

\* M^-1 . mu of the call, before clipping
BBSERawWeights ==
    BBSEWeights(self.soft, args.valid_labels,
                args.tofit_initial_posterior_probs,
                args.valid_posterior_probs)

C2_Case ==
    /\ BBSEDone
    /\ args.tofit_initial_posterior_probs = args.valid_posterior_probs
    /\ Det(BBSEConfusion) # Zero

\* C2: without a calibrator, soft or hard, when the to-fit probabilities are
\* the validation probabilities and M is invertible, BBSE returns
\* multipliers equal to 1 for every class.
C2_BBSENoShift ==
    C2_Case =>
        /\ ~IsError(ret)
        /\ ret.multipliers.shape = <<args.valid_posterior_probs.shape[2]>>
        /\ AllOnes(ret.multipliers)

\* the no-shift case in soft mode with predictions that are not one-hot
C2_Witness ==
    /\ C2_Case
    /\ self.soft
    /\ get_hard_preds(args.valid_posterior_probs) # args.valid_posterior_probs
    /\ AllOnes(ret.multipliers)

\* multipliers is raw with its negative entries replaced by 0
ClippedFrom(multipliers, raw) ==
    /\ multipliers.shape = raw.shape
    /\ \A c \in 1..raw.shape[1] :
          /\ Ge(multipliers.data[c], Zero)
          /\ Lt(raw.data[c], Zero) => multipliers.data[c] = Zero
          /\ Ge(raw.data[c], Zero) => multipliers.data[c] = raw.data[c]

\* C7: when the inversion succeeds no returned multiplier is negative: a
\* negative entry of M^-1 . mu is returned as 0, any other entry unchanged.
C7_BBSENonNegative ==
    (BBSEDone /\ Det(BBSEConfusion) # Zero) =>
        /\ ~IsError(ret)
        /\ ClippedFrom(ret.multipliers, BBSERawWeights)

SomeNegativeSomePositive(raw) ==
    /\ \E c \in 1..raw.shape[1] : Lt(raw.data[c], Zero)
    /\ \E c \in 1..raw.shape[1] : Gt(raw.data[c], Zero)

\* a negative weight was clipped and a positive one kept
C7_Witness ==
    /\ BBSEDone
    /\ ~IsError(ret)
    /\ SomeNegativeSomePositive(BBSERawWeights)
    /\ ClippedFrom(ret.multipliers, BBSERawWeights)

(***************************************************************************)
(* Properties of EMImbalanceAdapter.__call__ (under SpecEM).               *)
(***************************************************************************)
EMDone == pc = "done" /\ self.cls = "EMImbalanceAdapter"

IsFullFormat(x) == ndim(x) = 2 /\ x.shape[2] >= 2

AllNonZero(a) == ndim(a) = 1 /\ \A c \in 1..a.shape[1] : a.data[c] # Zero

IsAdapterFunc(v) == ~IsError(v) /\ v.cls = "PriorShiftAdapterFunc"

C1_Case ==
    /\ EMDone
    /\ self.initialization_weight_ratio = NoWeightShift
    /\ self.calibrator_factory = None
    /\ self.max_iterations >= 1
    /\ IsFullFormat(args.valid_posterior_probs)
    /\ AllNonZero(MeanAxis0(args.valid_posterior_probs))
    /\ args.tofit_initial_posterior_probs = args.valid_posterior_probs

\* C1: with the default configuration and max_iterations >= 1, a
\* full-format validation matrix with nonzero column means, passed as the
\* to-fit probabilities too, yields a multiplier of 1 for every class.
C1_EMNoShift ==
    C1_Case =>
        /\ IsAdapterFunc(ret)
        /\ ret.multipliers.shape = <<args.valid_posterior_probs.shape[2]>>
        /\ AllOnes(ret.multipliers)

\* the no-shift case with unequal class frequencies and soft predictions
C1_Witness ==
    /\ C1_Case
    /\ valid_class_freq.data[1] # valid_class_freq.data[2]
    /\ get_hard_preds(args.valid_posterior_probs) # args.valid_posterior_probs
    /\ iter_number = 1
    /\ AllOnes(ret.multipliers)

\* sum over the classes of |next - current|
SumAbsDiff(next, current) ==
    SumSeq(Vec([c \in 1..next.shape[1] |->
               AbsQ(Sub(next.data[c], current.data[c]))]))

\* C8: after an iteration the loop runs another one if and only if the sum
\* over the classes of |new estimate - previous estimate| is above the
\* tolerance and fewer than max_iterations iterations were made.
C8_StoppingCriterion ==
    (pc = "loop" /\ next_iter_class_freq # None) =>
        (EMLoopTest <=>
            /\ Gt(SumAbsDiff(next_iter_class_freq, current_iter_class_freq),
                  self.tolerance)
            /\ iter_number < self.max_iterations)

C9_Case ==
    /\ EMDone
    /\ IsFullFormat(args.valid_posterior_probs)
    /\ IsFullFormat(args.tofit_initial_posterior_probs)
    /\ AllNonZero(MeanAxis0(args.valid_posterior_probs))

\* C9: for every max_iterations >= 0 and every tolerance, on non-degenerate
\* inputs the loop makes at most max_iterations iterations and the call
\* returns an adapter function with multipliers (latest estimate) /
\* (validation class frequency); it never ends in an error.
C9_NormalExit ==
    C9_Case =>
        /\ iter_number <= self.max_iterations
        /\ IsAdapterFunc(ret)
        /\ ret.multipliers =
              Elementwise("/", next_iter_class_freq, valid_class_freq)

\* C10: for binary-shorthand validation probabilities the validation class
\* frequencies are the column means of the 2-column expansion: a vector of
\* length 2 that sums to 1.
C10_ValidClassFreqOfExpansion ==
    (/\ self.cls = "EMImbalanceAdapter"
     /\ pc # "call"
     /\ IsBinaryFormat(args.valid_posterior_probs))
    => /\ valid_class_freq.shape = <<2>>
       /\ valid_class_freq =
             MeanAxis0(map_to_softmax_format_if_approrpiate(
                           args.valid_posterior_probs))
       /\ SumAll(valid_class_freq) = One

====
